---- MODULE Spec2Model ----
(***************************************************************************)
(* hyper-ops: the HostedCluster reconciler that registers hosted clusters  *)
(* (and the local cluster) as ArgoCD cluster secrets.                       *)
(*                                                                         *)
(* Modelled from controllers/hyperops_controller.go (the second, current   *)
(* version of the controller, lines 267-592) and controllers/utils.go.     *)
(*                                                                         *)
(* Strings that the code inspects by prefix (label keys) are sequences of  *)
(* tokens, so that strings.HasPrefix is computed and not assumed.  Byte    *)
(* strings of secrets are sequences too: <<>> is the empty byte string.    *)
(***************************************************************************)
EXTENDS Integers, Sequences, FiniteSets, TLC

\* ------------------------------------------------------------------ bounds

\* How many steps of the environment (creations, label edits, deletions,
\* restarts) one behaviour holds.  Reconciles, resyncs, the first write of a
\* kubeconfig secret and the token controller are not counted: they converge
\* on their own.
MaxEnvSteps == 3

\* ------------------------------------------------------------ label keys

hyperOpsLabel == <<"hyper-ops.cloudmonkey.org">>

hyperOpsEnabledLabel == hyperOpsLabel \o <<"/", "enabled">>

hyperOpsGitopsNamespaceLabel == hyperOpsLabel \o <<"/", "gitops-namespace">>

hyperOpsTypeLabel == <<"hyper-ops.cloudmonkey.org", "/", "type">>

argoCDSecretTypeLabel == <<"argocd.argoproj.io", "/", "secret-type">>

argoCDSecretTypeCluster == "cluster"

hostedClusterServiceAccountName == "hyper-ops-admin"

hostedClusterServiceAccountNamespace == "kube-system"

DefaultGitOpsNamespace == "openshift-gitops"

LocalClusterName == "in-cluster-local"

LocalServer == <<"https://kubernetes.default.svc">>

\* Label keys the environment puts on HostedClusters besides the two above.
ClusterNameLabel == hyperOpsLabel \o <<"/", "cluster-name">>

\* A key of another domain that merely begins with the same characters.
LookalikeLabel == <<"hyper-ops.cloudmonkey.org", ".uk", "/", "team">>

AppLabel == <<"app">>

\* strings.HasPrefix
HasPrefix(s, prefix) ==
    /\ Len(s) >= Len(prefix)
    /\ SubSeq(s, 1, Len(prefix)) = prefix

\* --------------------------------------------------------------- maps

\* A Go map[string]string; the nil map and the empty map are the function
\* with the empty domain (the API never returns an empty non-nil label map).
EmptyMap == [k \in {} |-> ""]

MapPut(m, k, v) == [x \in (DOMAIN m) \cup {k} |-> IF x = k THEN v ELSE m[x]]

MapKeep(m, keys) == [x \in keys |-> m[x]]

IsNilMap(m) == DOMAIN m = {}

\* --------------------------------------------------------------- objects

\* An API object as the code reads and writes it.  The name and namespace are
\* the key under which the object is stored.
NoObj ==
    [exists |-> FALSE, labels |-> EmptyMap, annotations |-> EmptyMap,
     data |-> EmptyMap, type |-> "", spec |-> EmptyMap]

NewObj == [NoObj EXCEPT !.exists = TRUE]

\* The watched resources: namespace and name.
Ids == {<<"clusters", "foo">>, <<"clusters", "bar">>}

NameOf(id) == id[2]

\* Two more watched resources: one with the name of foo in another namespace,
\* one with the name the controller gives the local cluster.
OtherFoo == <<"other", "foo">>

LocalNamed == <<"clusters", "in-cluster-local">>

AllIds == Ids \cup {OtherFoo, LocalNamed}

GitOpsNamespaces == {DefaultGitOpsNamespace, "ns-a", "ns-b"}

SecretNames == {NameOf(id) : id \in AllIds} \cup {LocalClusterName}

SecretKeys == GitOpsNamespaces \X SecretNames

\* The label sets the environment gives a HostedCluster.
LabelSets ==
    { EmptyMap,
      (hyperOpsEnabledLabel :> "true"),
      (hyperOpsEnabledLabel :> "true") @@ (hyperOpsGitopsNamespaceLabel :> "ns-a"),
      (hyperOpsEnabledLabel :> "true") @@ (hyperOpsGitopsNamespaceLabel :> "ns-b"),
      (hyperOpsEnabledLabel :> "true") @@ (hyperOpsGitopsNamespaceLabel :> "ns-a")
          @@ (ClusterNameLabel :> "test") @@ (AppLabel :> "web")
          @@ (LookalikeLabel :> "x"),
      (hyperOpsEnabledLabel :> "false") @@ (hyperOpsGitopsNamespaceLabel :> "ns-a"),
      (AppLabel :> "web") }

NoHC == [exists |-> FALSE, labels |-> EmptyMap, deleting |-> FALSE]

\* ------------------------------------------------------------- clusters

RemoteOf(id) == <<"hosted", id[1], id[2]>>

LocalCluster == <<"local", "">>

Clusters == {LocalCluster} \cup {RemoteOf(id) : id \in AllIds}

ServerOf(c) == IF c = LocalCluster THEN LocalServer ELSE <<"https://api", c[2], c[3]>>

StaleServer == <<"https://api", "old">>

\* What the token controller of cluster c writes into a token secret.
TokenOf(c) == <<"token", c>>

CAOf(c) == <<"ca", c>>

NoIdentity == [sa |-> NoObj, crb |-> NoObj, tok |-> NoObj]

\* The kubeconfig documents an admin-kubeconfig secret may hold for id: one
\* cluster entry; two entries with the current context on the second;
\* something clientcmd cannot load.
KubeConfigsOf(id) ==
    { [valid |-> TRUE,
       clusters |-> << [name |-> "cluster", server |-> ServerOf(RemoteOf(id))] >>,
       current |-> "cluster"],
      [valid |-> TRUE,
       clusters |-> << [name |-> "old", server |-> StaleServer],
                       [name |-> "cluster", server |-> ServerOf(RemoteOf(id))] >>,
       current |-> "cluster"],
      [valid |-> FALSE, clusters |-> << >>, current |-> ""] }

NoKubeConfig == [exists |-> FALSE, kubeconfig |-> [valid |-> FALSE, clusters |-> << >>, current |-> ""]]

\* ------------------------------------------------------------------ state

VARIABLES
    hcs,              \* the HostedClusters of the management cluster
    kubeconfigs,      \* their <name>-admin-kubeconfig secrets
    secrets,          \* the secrets in the gitops namespaces of the local cluster
    clusters,         \* the identity objects in kube-system of every cluster
    gitOpsNamespace,  \* the package variable of the controller process
    queue,            \* the controller's work queue (deduplicating)
    last,             \* what the most recent step did
    envSteps,         \* environment steps taken so far
    workers,          \* the Reconcile each worker goroutine is in the middle of
    upsert            \* the CreateOrUpdateWithRetries call in progress

vars ==
    <<hcs, kubeconfigs, secrets, clusters, gitOpsNamespace, queue, last, envSteps,
      workers, upsert>>

\* ------------------------------------------------- the objects the code builds

\* sa, hyperops_controller.go:508
ServiceAccountObj == NewObj

\* crb, hyperops_controller.go:523
ClusterRoleBindingObj ==
    [NewObj EXCEPT !.spec =
        ("subject" :> <<"ServiceAccount", hostedClusterServiceAccountName,
                        hostedClusterServiceAccountNamespace>>)
        @@ ("roleRef" :> <<"ClusterRole", "cluster-admin", "rbac.authorization.k8s.io">>)]

\* saTokenSecret, hyperops_controller.go:550
TokenSecretObj ==
    [NewObj EXCEPT !.annotations =
                      ("kubernetes.io/service-account.name" :> hostedClusterServiceAccountName),
                   !.type = "kubernetes.io/service-account-token"]

\* secret.Data[key]: a missing key reads as the empty byte string
DataOf(obj, key) == IF key \in DOMAIN obj.data THEN obj.data[key] ELSE << >>

\* base64.URLEncoding.EncodeToString
Base64URL(bytes) == IF bytes = << >> THEN << >> ELSE <<"base64url", bytes>>

\* json.Marshal(cluster.Config)
JsonMarshal(config) == [json |-> config]

NoCluster ==
    [name |-> "", server |-> << >>,
     config |-> [bearerToken |-> << >>, tlsClientConfig |-> [caData |-> << >>]]]

\* ------------------------------------------------------------------ upsert

\* CreateOrUpdate without the comparison of the mutated with the fetched
\* object: it writes whenever the object exists.
CreateOrUpdate_AlwaysUpdate(found, created, mutated) ==
    IF ~found.exists THEN [obj |-> created, op |-> "created"]
    ELSE [obj |-> mutated, op |-> "updated"]

\* controllerutil.CreateOrUpdate as CreateOrUpdateWithRetries calls it: `found`
\* is what Get returns (NoObj for not found), `created` is the mutate function
\* applied to the object the caller built, `mutated` is the mutate function
\* applied to the object as fetched.  The write happens only when the mutation
\* changed the fetched object.
CreateOrUpdate(found, created, mutated) ==
    IF ~found.exists THEN [obj |-> created, op |-> "created"]
    ELSE IF mutated = found THEN [obj |-> found, op |-> "unchanged"]
    ELSE [obj |-> mutated, op |-> "updated"]

\* ---------------------------------------------------------------- bootstrap

\* setupClusterConfig whose upserts enforce the objects as built: whatever is
\* there is replaced.
setupClusterConfig_Overwrite(cl, server, name, f) ==
    IF f \in 1..4
    THEN [err |-> "api", cluster |-> cl, ops |-> << >>, value |-> NoCluster]
    ELSE [err |-> "token not found",
          cluster |-> [sa |-> ServiceAccountObj, crb |-> ClusterRoleBindingObj,
                       tok |-> TokenSecretObj],
          ops |-> <<"updated", "updated", "updated">>, value |-> NoCluster]

\* setupClusterConfig that creates its objects with Create: an object that
\* is already there is an error.
setupClusterConfig_CreateOnly(cl, server, name, f) ==
    IF cl.sa.exists \/ cl.crb.exists \/ cl.tok.exists
    THEN [err |-> "exists", cluster |-> cl, ops |-> << >>, value |-> NoCluster]
    ELSE [err |-> "token not found",
          cluster |-> [sa |-> ServiceAccountObj, crb |-> ClusterRoleBindingObj,
                       tok |-> TokenSecretObj],
          ops |-> <<"created", "created", "created">>, value |-> NoCluster]

\* setupClusterConfig without the two checks for empty credentials.
setupClusterConfig_NoCheck(cl, server, name, f) ==
    LET c3 == [cl EXCEPT !.sa = CreateOrUpdate(cl.sa, ServiceAccountObj, cl.sa).obj,
                         !.crb = CreateOrUpdate(cl.crb, ClusterRoleBindingObj, cl.crb).obj,
                         !.tok = CreateOrUpdate(cl.tok, TokenSecretObj, cl.tok).obj]
    IN  IF f \in 1..4
        THEN [err |-> "api", cluster |-> cl, ops |-> << >>, value |-> NoCluster]
        ELSE [err |-> "", cluster |-> c3,
              ops |-> <<CreateOrUpdate(cl.sa, ServiceAccountObj, cl.sa).op,
                        CreateOrUpdate(cl.crb, ClusterRoleBindingObj, cl.crb).op,
                        CreateOrUpdate(cl.tok, TokenSecretObj, cl.tok).op>>,
              value |-> [name |-> name, server |-> server,
                         config |-> [bearerToken |-> DataOf(c3.tok, "token"),
                                     tlsClientConfig |->
                                         [caData |-> Base64URL(DataOf(c3.tok, "ca.crt"))]]]]

\* setupClusterConfig against the identity objects `cl` of one cluster.  f is
\* the API call of this function that fails with an error that is neither a
\* conflict nor not-found (1: service account, 2: role binding, 3: token
\* secret, 4: the Get of the token secret); any other value: none fails.
setupClusterConfig(cl, server, name, f) ==
    LET sa  == CreateOrUpdate(cl.sa, ServiceAccountObj, cl.sa)
        c1  == [cl EXCEPT !.sa = sa.obj]
        crb == CreateOrUpdate(c1.crb, ClusterRoleBindingObj, c1.crb)
        c2  == [c1 EXCEPT !.crb = crb.obj]
        tok == CreateOrUpdate(c2.tok, TokenSecretObj, c2.tok)
        c3  == [c2 EXCEPT !.tok = tok.obj]
        got == c3.tok
    IN  IF f = 1 THEN
            [err |-> "api", cluster |-> cl, ops |-> << >>, value |-> NoCluster]
        ELSE IF f = 2 THEN
            [err |-> "api", cluster |-> c1, ops |-> <<sa.op>>, value |-> NoCluster]
        ELSE IF f = 3 THEN
            [err |-> "api", cluster |-> c2, ops |-> <<sa.op, crb.op>>, value |-> NoCluster]
        ELSE IF f = 4 THEN
            [err |-> "api", cluster |-> c3, ops |-> <<sa.op, crb.op, tok.op>>,
             value |-> NoCluster]
        ELSE IF Len(DataOf(got, "token")) = 0 THEN
            [err |-> "token not found", cluster |-> c3,
             ops |-> <<sa.op, crb.op, tok.op>>, value |-> NoCluster]
        ELSE IF Len(DataOf(got, "ca.crt")) = 0 THEN
            [err |-> "ca.crt not found", cluster |-> c3,
             ops |-> <<sa.op, crb.op, tok.op>>, value |-> NoCluster]
        ELSE
            [err |-> "", cluster |-> c3, ops |-> <<sa.op, crb.op, tok.op>>,
             value |-> [name |-> name, server |-> server,
                        config |-> [bearerToken |-> DataOf(got, "token"),
                                    tlsClientConfig |->
                                        [caData |-> Base64URL(DataOf(got, "ca.crt"))]]]]

\* --------------------------------------------------------------- synthesis

\* The mutate function of createArgoCDClusterSecret, lines 480-487.
ArgoCDSecretMutate(obj, labels, cluster) ==
    [obj EXCEPT !.labels = labels,
                !.data = ("name" :> cluster.name) @@ ("server" :> cluster.server)
                         @@ ("config" :> JsonMarshal(cluster.config)),
                !.type = "Opaque"]

\* createArgoCDClusterSecret: the secret named after the cluster in namespace ns.
createArgoCDClusterSecret(secs, ns, labels, cluster) ==
    LET key == <<ns, cluster.name>>
        argocdClusterLabels == MapPut(labels, argoCDSecretTypeLabel, argoCDSecretTypeCluster)
        r == CreateOrUpdate(secs[key],
                            ArgoCDSecretMutate(NewObj, argocdClusterLabels, cluster),
                            ArgoCDSecretMutate(secs[key], argocdClusterLabels, cluster))
    IN  [secrets |-> [secs EXCEPT ![key] = r.obj], op |-> r.op]

\* HostedClusterLabels as in the earlier version of the controller: every
\* label of the HostedCluster is mirrored.
HostedClusterLabels_KeepAll(labels) == MapPut(labels, hyperOpsTypeLabel, "hosted")

\* The labels Reconcile mirrors onto the hosted secret, lines 421-428.
HostedClusterLabels(labels) ==
    MapPut(MapKeep(labels, {k \in DOMAIN labels : HasPrefix(k, hyperOpsLabel)}),
           hyperOpsTypeLabel, "hosted")

\* localClusterLabels, lines 383-385
LocalClusterLabels == (hyperOpsTypeLabel :> "local")

\* --------------------------------------------------------------- kubeconfig

\* getServerFromKubeConfig: the server of the first cluster entry.
getServerFromKubeConfig(kc) == kc.clusters[1].server

\* GetClientForCluster: clientcmd binds the client to the cluster of the
\* current context.
CurrentCluster(kc) ==
    CHOOSE i \in 1..Len(kc.clusters) : kc.clusters[i].name = kc.current

GetClientForCluster(kc) ==
    CHOOSE c \in Clusters : ServerOf(c) = kc.clusters[CurrentCluster(kc)].server

\* ---------------------------------------------------------------- Reconcile

NoTrace ==
    [localOps |-> << >>, localSecretOp |-> "", remoteOps |-> << >>,
     hostedOp |-> "", deleted |-> << >>]

Outcome(err, secs, cls, ns, trace) ==
    [err |-> err, secrets |-> secs, clusters |-> cls, gitOpsNamespace |-> ns,
     trace |-> trace]

\* Lines 397-434: the hosted part of Reconcile, entered with the local
\* cluster registered (secs, cls, ns, trace are the state so far).
ReconcileHosted(id, f, hc, kcs, secs, cls, ns, trace) ==
    LET kcSecret == kcs[id]
        kc       == kcSecret.kubeconfig
        target   == GetClientForCluster(kc)
        server   == getServerFromKubeConfig(kc)
        remote   == setupClusterConfig(cls[target], server, NameOf(id), f - 7)
        cls1     == [cls EXCEPT ![target] = remote.cluster]
        trace1   == [trace EXCEPT !.remoteOps = remote.ops]
        hosted   == createArgoCDClusterSecret(secs, ns, HostedClusterLabels(hc.labels),
                                              remote.value)
    IN  IF f = 7 THEN Outcome("api", secs, cls, ns, trace)
        ELSE IF ~kcSecret.exists THEN Outcome("", secs, cls, ns, trace)
        ELSE IF ~kc.valid THEN Outcome("kubeconfig", secs, cls, ns, trace)
        ELSE IF remote.err # "" THEN Outcome(remote.err, secs, cls1, ns, trace1)
        ELSE IF IsNilMap(hc.labels) THEN Outcome("panic", secs, cls1, ns, trace1)
        ELSE IF f = 12 THEN Outcome("api", secs, cls1, ns, trace1)
        ELSE Outcome("", hosted.secrets, cls1, ns,
                     [trace1 EXCEPT !.hostedOp = hosted.op])

\* ReconcileLive that goes on to the hosted cluster when the local cluster
\* could not be registered.
ReconcileLive_LocalErrorIgnored(id, f, hc, kcs, secs, cls, ns0) ==
    LET ns     == IF hyperOpsGitopsNamespaceLabel \in DOMAIN hc.labels
                  THEN hc.labels[hyperOpsGitopsNamespaceLabel] ELSE ns0
        local  == setupClusterConfig(cls[LocalCluster], LocalServer, LocalClusterName,
                                     f - 1)
        cls1   == [cls EXCEPT ![LocalCluster] = local.cluster]
        trace1 == [NoTrace EXCEPT !.localOps = local.ops]
    IN  IF local.err # "" \/ f = 6
        THEN ReconcileHosted(id, 0, hc, kcs, secs, cls1, ns, trace1)
        ELSE ReconcileHosted(id, f, hc, kcs,
                             createArgoCDClusterSecret(secs, ns, LocalClusterLabels,
                                                       local.value).secrets,
                             cls1, ns, [trace1 EXCEPT !.localSecretOp = "created"])

\* ReconcileLive that removes the hosted secret of a resource with
\* enabled="false".
ReconcileLive_RevokeOnDisable(id, f, hc, kcs, secs, cls, ns0) ==
    LET ns     == IF hyperOpsGitopsNamespaceLabel \in DOMAIN hc.labels
                  THEN hc.labels[hyperOpsGitopsNamespaceLabel] ELSE ns0
        local  == setupClusterConfig(cls[LocalCluster], LocalServer, LocalClusterName,
                                     f - 1)
        cls1   == [cls EXCEPT ![LocalCluster] = local.cluster]
        trace1 == [NoTrace EXCEPT !.localOps = local.ops]
        lsec   == createArgoCDClusterSecret(secs, ns, LocalClusterLabels, local.value)
        trace2 == [trace1 EXCEPT !.localSecretOp = lsec.op]
    IN  IF local.err # "" THEN Outcome(local.err, secs, cls1, ns, trace1)
        ELSE IF f = 6 THEN Outcome("api", secs, cls1, ns, trace1)
        ELSE IF /\ hyperOpsEnabledLabel \in DOMAIN hc.labels
                /\ hc.labels[hyperOpsEnabledLabel] = "false"
             THEN Outcome("", [lsec.secrets EXCEPT ![<<ns, NameOf(id)>>] = NoObj], cls1,
                          ns, trace2)
        ELSE ReconcileHosted(id, f, hc, kcs, lsec.secrets, cls1, ns, trace2)

\* ReconcileLive without the namespace override: the label is ignored.
ReconcileLive_NoOverride(id, f, hc, kcs, secs, cls, ns0) ==
    LET local  == setupClusterConfig(cls[LocalCluster], LocalServer, LocalClusterName,
                                     f - 1)
        cls1   == [cls EXCEPT ![LocalCluster] = local.cluster]
        trace1 == [NoTrace EXCEPT !.localOps = local.ops]
        lsec   == createArgoCDClusterSecret(secs, ns0, LocalClusterLabels, local.value)
        trace2 == [trace1 EXCEPT !.localSecretOp = lsec.op]
    IN  IF local.err # "" THEN Outcome(local.err, secs, cls1, ns0, trace1)
        ELSE IF f = 6 THEN Outcome("api", secs, cls1, ns0, trace1)
        ELSE IF /\ hyperOpsEnabledLabel \in DOMAIN hc.labels
                /\ hc.labels[hyperOpsEnabledLabel] = "false"
             THEN Outcome("", lsec.secrets, cls1, ns0, trace2)
        ELSE ReconcileHosted(id, f, hc, kcs, lsec.secrets, cls1, ns0, trace2)

\* ReconcileLive with the enabled check ahead of the local cluster, as in the
\* earlier version of the controller.
ReconcileLive_EnabledFirst(id, f, hc, kcs, secs, cls, ns0) ==
    LET ns     == IF hyperOpsGitopsNamespaceLabel \in DOMAIN hc.labels
                  THEN hc.labels[hyperOpsGitopsNamespaceLabel] ELSE ns0
        local  == setupClusterConfig(cls[LocalCluster], LocalServer, LocalClusterName,
                                     f - 1)
        cls1   == [cls EXCEPT ![LocalCluster] = local.cluster]
        trace1 == [NoTrace EXCEPT !.localOps = local.ops]
        lsec   == createArgoCDClusterSecret(secs, ns, LocalClusterLabels, local.value)
        trace2 == [trace1 EXCEPT !.localSecretOp = lsec.op]
    IN  IF /\ hyperOpsEnabledLabel \in DOMAIN hc.labels
           /\ hc.labels[hyperOpsEnabledLabel] = "false"
        THEN Outcome("", secs, cls, ns0, NoTrace)
        ELSE IF local.err # "" THEN Outcome(local.err, secs, cls1, ns, trace1)
        ELSE IF f = 6 THEN Outcome("api", secs, cls1, ns, trace1)
        ELSE ReconcileHosted(id, f, hc, kcs, lsec.secrets, cls1, ns, trace2)

\* Lines 370-396: the namespace override, the local cluster, the enabled check.
ReconcileLive(id, f, hc, kcs, secs, cls, ns0) ==
    LET ns     == IF hyperOpsGitopsNamespaceLabel \in DOMAIN hc.labels
                  THEN hc.labels[hyperOpsGitopsNamespaceLabel] ELSE ns0
        local  == setupClusterConfig(cls[LocalCluster], LocalServer, LocalClusterName,
                                     f - 1)
        cls1   == [cls EXCEPT ![LocalCluster] = local.cluster]
        trace1 == [NoTrace EXCEPT !.localOps = local.ops]
        lsec   == createArgoCDClusterSecret(secs, ns, LocalClusterLabels, local.value)
        trace2 == [trace1 EXCEPT !.localSecretOp = lsec.op]
    IN  IF local.err # "" THEN Outcome(local.err, secs, cls1, ns, trace1)
        ELSE IF f = 6 THEN Outcome("api", secs, cls1, ns, trace1)
        ELSE IF /\ hyperOpsEnabledLabel \in DOMAIN hc.labels
                /\ hc.labels[hyperOpsEnabledLabel] = "false"
             THEN Outcome("", lsec.secrets, cls1, ns, trace2)
        ELSE ReconcileHosted(id, f, hc, kcs, lsec.secrets, cls1, ns, trace2)

\* ReconcileOutcome that returns the not-found error of the first Get.
ReconcileOutcome_NotFoundReturned(id, f, all, kcs, secs, cls, ns0) ==
    LET hc  == all[id]
        key == <<ns0, NameOf(id)>>
    IN  IF f = 1 THEN Outcome("api", secs, cls, ns0, NoTrace)
        ELSE IF ~hc.exists THEN Outcome("notfound", secs, cls, ns0, NoTrace)
        ELSE IF hc.deleting THEN
            IF f = 2 THEN Outcome("api", secs, cls, ns0, NoTrace)
            ELSE Outcome("", [secs EXCEPT ![key] = NoObj], cls, ns0,
                         [NoTrace EXCEPT !.deleted = key])
        ELSE ReconcileLive(id, f, hc, kcs, secs, cls, ns0)

\* ReconcileOutcome with the namespace override ahead of the deletion check.
ReconcileOutcome_OverrideBeforeDelete(id, f, all, kcs, secs, cls, ns0) ==
    LET hc  == all[id]
        ns  == IF hyperOpsGitopsNamespaceLabel \in DOMAIN hc.labels
               THEN hc.labels[hyperOpsGitopsNamespaceLabel] ELSE ns0
        key == <<ns, NameOf(id)>>
    IN  IF f = 1 THEN Outcome("api", secs, cls, ns0, NoTrace)
        ELSE IF ~hc.exists THEN Outcome("", secs, cls, ns0, NoTrace)
        ELSE IF hc.deleting THEN
            IF f = 2 THEN Outcome("api", secs, cls, ns, NoTrace)
            ELSE Outcome("", [secs EXCEPT ![key] = NoObj], cls, ns,
                         [NoTrace EXCEPT !.deleted = key])
        ELSE ReconcileLive(id, f, hc, kcs, secs, cls, ns0)

\* Reconcile(req) on the given state.  f numbers the API call that fails with
\* an error that is neither not-found nor a conflict: 1 the Get of the
\* HostedCluster, 2 the Delete (deleting resource) or 2-5 the local bootstrap,
\* 6 the local secret, 7 the Get of the kubeconfig secret, 8-11 the remote
\* bootstrap, 12 the hosted secret; 0: none.
ReconcileOutcome(id, f, all, kcs, secs, cls, ns0) ==
    LET hc  == all[id]
        key == <<ns0, NameOf(id)>>
    IN  IF f = 1 THEN Outcome("api", secs, cls, ns0, NoTrace)
        ELSE IF ~hc.exists THEN Outcome("", secs, cls, ns0, NoTrace)
        ELSE IF hc.deleting THEN
            IF f = 2 THEN Outcome("api", secs, cls, ns0, NoTrace)
            ELSE Outcome("", [secs EXCEPT ![key] = NoObj], cls, ns0,
                         [NoTrace EXCEPT !.deleted = key])
        ELSE ReconcileLive(id, f, hc, kcs, secs, cls, ns0)

\* ------------------------------------------------------------- event filter

\* CreateFunc and UpdateFunc of SetupWithManager: the (new) object carries the
\* enabled label key.  DeleteFunc is not set: delete events pass.
CreateFunc(obj) == hyperOpsEnabledLabel \in DOMAIN obj.labels

\* UpdateFunc that looks at the value of the label.
UpdateFunc_EnabledTrue(objNew) ==
    /\ hyperOpsEnabledLabel \in DOMAIN objNew.labels
    /\ objNew.labels[hyperOpsEnabledLabel] = "true"

UpdateFunc(objNew) == hyperOpsEnabledLabel \in DOMAIN objNew.labels

Enqueue(q, id, accepted) == IF accepted THEN q \cup {id} ELSE q

\* ------------------------------------------------------------------ actions

\* The worker goroutines of the controller.
Workers == {"w1", "w2"}

\* A worker that holds no request.  Of a worker in the middle of Reconcile: pc
\* is the statement it is at, hc the HostedCluster it fetched, ns the value of
\* gitOpsNamespace when it passed line 375, cluster the Cluster the last
\* setupClusterConfig returned.
NoWork ==
    [pc |-> "idle", id |-> <<"", "">>, hc |-> NoHC, ns |-> "", cluster |-> NoCluster,
     trace |-> NoTrace]

\* No call of CreateOrUpdateWithRetries in progress.
\* rv is the resourceVersion of the stored object, found and foundRV the
\* object and version the last Get put into obj; steps is backoff.Steps;
\* attempts, conflicts, wrote and first record what the call did so far (first:
\* the first error that was not a conflict and the attempt it came from).
NoUpsert ==
    [pc |-> "idle", labels |-> EmptyMap, steps |-> 0, attempts |-> 0,
     conflicts |-> 0, found |-> NoObj, foundRV |-> 0, rv |-> 0,
     op |-> "", err |-> "", wrote |-> FALSE,
     first |-> [err |-> "", attempt |-> 0]]

NoLast ==
    [op |-> "env", id |-> <<"", "">>, err |-> "", hc |-> NoHC, ns0 |-> "",
     trace |-> NoTrace]

Init ==
    /\ hcs = [id \in AllIds |-> NoHC]
    /\ kubeconfigs = [id \in AllIds |-> NoKubeConfig]
    /\ secrets = [k \in SecretKeys |-> NoObj]
    /\ clusters = [c \in Clusters |-> NoIdentity]
    /\ gitOpsNamespace = DefaultGitOpsNamespace
    /\ queue = {}
    /\ last = NoLast
    /\ envSteps = 0
    /\ workers = [w \in Workers |-> NoWork]
    /\ upsert = NoUpsert

EnvStep ==
    /\ envSteps < MaxEnvSteps
    /\ envSteps' = envSteps + 1
    /\ last' = NoLast
    /\ UNCHANGED upsert

\* A HostedCluster is created; the informer delivers a create event.
CreateHC(id, ls) ==
    /\ ~hcs[id].exists
    /\ EnvStep
    /\ hcs' = [hcs EXCEPT ![id] = [exists |-> TRUE, labels |-> ls, deleting |-> FALSE]]
    /\ queue' = Enqueue(queue, id, CreateFunc(hcs'[id]))
    /\ UNCHANGED <<kubeconfigs, secrets, clusters, gitOpsNamespace, workers>>

\* Its labels are edited; the informer delivers an update event.
UpdateLabels(id, ls) ==
    /\ hcs[id].exists
    /\ hcs[id].labels # ls
    /\ EnvStep
    /\ hcs' = [hcs EXCEPT ![id].labels = ls]
    /\ queue' = Enqueue(queue, id, UpdateFunc(hcs'[id]))
    /\ UNCHANGED <<kubeconfigs, secrets, clusters, gitOpsNamespace, workers>>

\* It is deleted while a finalizer holds it: the deletion timestamp is set.
MarkDeleted(id) ==
    /\ hcs[id].exists
    /\ ~hcs[id].deleting
    /\ EnvStep
    /\ hcs' = [hcs EXCEPT ![id].deleting = TRUE]
    /\ queue' = Enqueue(queue, id, UpdateFunc(hcs'[id]))
    /\ UNCHANGED <<kubeconfigs, secrets, clusters, gitOpsNamespace, workers>>

\* The finalizers are gone and the object with them: a delete event.
RemoveHC(id) ==
    /\ hcs[id].exists
    /\ hcs[id].deleting
    /\ EnvStep
    /\ hcs' = [hcs EXCEPT ![id] = NoHC]
    /\ queue' = Enqueue(queue, id, TRUE)
    /\ UNCHANGED <<kubeconfigs, secrets, clusters, gitOpsNamespace, workers>>

\* The hosting platform writes the admin kubeconfig secret of a HostedCluster.
PutKubeconfig(id, kc) ==
    /\ hcs[id].exists
    /\ ~kubeconfigs[id].exists
    /\ kubeconfigs' = [kubeconfigs EXCEPT ![id] = [exists |-> TRUE, kubeconfig |-> kc]]
    /\ last' = NoLast
    /\ UNCHANGED <<hcs, secrets, clusters, gitOpsNamespace, queue, envSteps, workers, upsert>>

\* The token controller of a cluster fills a token secret that has no token.
TokenController(c) ==
    /\ clusters[c].tok.exists
    /\ Len(DataOf(clusters[c].tok, "token")) = 0
    /\ clusters' = [clusters EXCEPT ![c].tok.data =
                        ("token" :> TokenOf(c)) @@ ("ca.crt" :> CAOf(c))]
    /\ last' = NoLast
    /\ UNCHANGED <<hcs, kubeconfigs, secrets, gitOpsNamespace, queue, envSteps, workers,
                   upsert>>

\* The periodic resync: an update event for an unchanged object.
Resync(id) ==
    /\ hcs[id].exists
    /\ id \notin queue
    /\ UpdateFunc(hcs[id])
    /\ queue' = Enqueue(queue, id, UpdateFunc(hcs[id]))
    /\ UNCHANGED <<hcs, kubeconfigs, secrets, clusters, gitOpsNamespace, last, envSteps,
                   workers, upsert>>

\* The controller process restarts: the package variable is initialised
\* again, the queue is rebuilt from the create events of the initial list.
Restart ==
    /\ EnvStep
    /\ gitOpsNamespace' = DefaultGitOpsNamespace
    /\ queue' = {id \in AllIds : hcs[id].exists /\ CreateFunc(hcs[id])}
    /\ workers' = [w \in Workers |-> NoWork]
    /\ UNCHANGED <<hcs, kubeconfigs, secrets, clusters>>

\* The API calls of one Reconcile that may fail (see ReconcileOutcome).
FailPoints == 0..12

\* A worker takes a request from the queue and runs Reconcile to its end; a
\* returned error puts the request back.
Reconcile(id, f) ==
    /\ id \in queue
    /\ LET r == ReconcileOutcome(id, f, hcs, kubeconfigs, secrets, clusters,
                                 gitOpsNamespace)
       IN  /\ secrets' = r.secrets
           /\ clusters' = r.clusters
           /\ gitOpsNamespace' = r.gitOpsNamespace
           /\ queue' = IF r.err = "" THEN queue \ {id} ELSE queue
           /\ last' = [op |-> "Reconcile", id |-> id, err |-> r.err, hc |-> hcs[id],
                       ns0 |-> gitOpsNamespace, trace |-> r.trace]
    /\ UNCHANGED <<hcs, kubeconfigs, envSteps, workers, upsert>>

\* One watched resource, every label set, every kubeconfig, every failure.
Foo == <<"clusters", "foo">>

Next ==
    \/ \E ls \in LabelSets : CreateHC(Foo, ls)
    \/ \E ls \in LabelSets : UpdateLabels(Foo, ls)
    \/ MarkDeleted(Foo)
    \/ RemoveHC(Foo)
    \/ \E kc \in KubeConfigsOf(Foo) : PutKubeconfig(Foo, kc)
    \/ \E c \in Clusters : TokenController(c)
    \/ Resync(Foo)
    \/ Restart
    \/ \E f \in FailPoints : Reconcile(Foo, f)

Spec == Init /\ [][Next]_vars

\* Two watched resources whose kubeconfigs have the usual single entry, the
\* label sets that differ in the enabled and gitops-namespace labels, and no
\* failing API call.
LabelSetsTwo ==
    {ls \in LabelSets : AppLabel \notin DOMAIN ls /\ LookalikeLabel \notin DOMAIN ls}

PlainKubeConfig(id) ==
    CHOOSE kc \in KubeConfigsOf(id) : kc.valid /\ Len(kc.clusters) = 1

NextTwo ==
    \/ \E id \in Ids, ls \in LabelSetsTwo : CreateHC(id, ls)
    \/ \E id \in Ids, ls \in LabelSetsTwo : UpdateLabels(id, ls)
    \/ \E id \in Ids : MarkDeleted(id)
    \/ \E id \in Ids : RemoveHC(id)
    \/ \E id \in Ids : PutKubeconfig(id, PlainKubeConfig(id))
    \/ \E c \in Clusters : TokenController(c)
    \/ \E id \in Ids : Resync(id)
    \/ Restart
    \/ \E id \in Ids : Reconcile(id, 0)

SpecTwo == Init /\ [][NextTwo]_vars

\* ------------------------------------- CreateOrUpdateWithRetries, step by step

\* retry.DefaultBackoff.Steps
BackoffSteps == 4

\* How many writes other clients make to the object during one behaviour.
MaxExternal == 5

\* The object the call is about: the hosted secret of foo.
UpsertKey == <<DefaultGitOpsNamespace, "foo">>

UpsertCluster ==
    [name |-> "foo", server |-> ServerOf(RemoteOf(Foo)),
     config |-> [bearerToken |-> TokenOf(RemoteOf(Foo)),
                 tlsClientConfig |-> [caData |-> Base64URL(CAOf(RemoteOf(Foo)))]]]

UpsertLabelSets ==
    { HostedClusterLabels((hyperOpsEnabledLabel :> "true")),
      HostedClusterLabels((hyperOpsEnabledLabel :> "true") @@ (ClusterNameLabel :> "test")) }

\* The mutate function of the call (that of createArgoCDClusterSecret).
UpsertMutate(obj, labels) ==
    ArgoCDSecretMutate(obj, MapPut(labels, argoCDSecretTypeLabel, argoCDSecretTypeCluster),
                       UpsertCluster)

\* What other clients write.
TeamLabel == <<"team">>

ExternalChanges == {"annotate-a", "annotate-b", "relabel"}

ExternalChange(obj, change) ==
    IF change = "relabel" THEN [obj EXCEPT !.labels = MapPut(obj.labels, TeamLabel, "x")]
    ELSE [obj EXCEPT !.annotations = MapPut(obj.annotations, "touched", change)]

\* The condition function retries on every error, not only on conflicts.
RetryOn_Any(err) == err # ""

\* The condition function never retries.
RetryOn_Never(err) == FALSE

\* apierrors.IsConflict, utils.go:32
RetryOn(err) == err = "conflict"

\* The backoff loop without its bound.
BackoffDone_Never(steps) == FALSE

\* wait.ExponentialBackoff: the loop ends after the attempt made with Steps = 1.
BackoffDone(steps) == steps = 1

\* The condition function after one CreateOrUpdate that returned (op, e), and
\* the backoff loop around it.
AfterAttempt(u, op, e) ==
    LET u1 == IF e \notin {"", "conflict"} /\ u.first.err = ""
              THEN [u EXCEPT !.first = [err |-> e, attempt |-> u.attempts]]
              ELSE u
        u2 == IF e = "conflict" THEN [u1 EXCEPT !.conflicts = @ + 1] ELSE u1
    IN  IF e = "" THEN [u2 EXCEPT !.pc = "done", !.op = op, !.err = ""]
        ELSE IF ~RetryOn(e) THEN [u2 EXCEPT !.pc = "done", !.op = "", !.err = e]
        ELSE IF BackoffDone(u2.steps) THEN
            [u2 EXCEPT !.pc = "done", !.op = "", !.err = "timeout"]
        ELSE [u2 EXCEPT !.pc = "get", !.steps = @ - 1]

External ==
    /\ envSteps < MaxExternal
    /\ envSteps' = envSteps + 1
    /\ upsert' = [upsert EXCEPT !.rv = @ + 1]
    /\ UNCHANGED <<hcs, kubeconfigs, clusters, gitOpsNamespace, queue, last, workers>>

ExternalCreate ==
    /\ ~secrets[UpsertKey].exists
    /\ External
    /\ secrets' = [secrets EXCEPT ![UpsertKey] =
                      [NewObj EXCEPT !.labels = (TeamLabel :> "x"), !.type = "Opaque"]]

ExternalUpdate(change) ==
    /\ secrets[UpsertKey].exists
    /\ ExternalChange(secrets[UpsertKey], change) # secrets[UpsertKey]
    /\ External
    /\ secrets' = [secrets EXCEPT ![UpsertKey] = ExternalChange(@, change)]

ExternalDelete ==
    /\ secrets[UpsertKey].exists
    /\ External
    /\ secrets' = [secrets EXCEPT ![UpsertKey] = NoObj]

UpsertFrame == UNCHANGED <<hcs, kubeconfigs, clusters, gitOpsNamespace, queue, last, envSteps,
                           workers>>

\* CreateOrUpdateWithRetries is called.
UpsertStart(labels) ==
    /\ upsert.pc = "idle"
    /\ upsert' = [upsert EXCEPT !.pc = "get", !.labels = labels, !.steps = BackoffSteps]
    /\ UNCHANGED secrets
    /\ UpsertFrame

\* c.Get, mutate and the comparison of CreateOrUpdate.  A Get that finds
\* nothing leaves obj as it was.
UpsertGet(fail) ==
    /\ upsert.pc = "get"
    /\ LET u     == [upsert EXCEPT !.attempts = @ + 1]
           found == secrets[UpsertKey]
           r     == CreateOrUpdate(found, UpsertMutate(NewObj, u.labels),
                                   UpsertMutate(found, u.labels))
       IN  upsert' =
             IF fail THEN AfterAttempt(u, "", "api")
             ELSE IF r.op = "created" THEN [u EXCEPT !.pc = "create"]
             ELSE IF r.op = "unchanged" THEN
                 AfterAttempt([u EXCEPT !.found = found, !.foundRV = u.rv], "unchanged", "")
             ELSE [u EXCEPT !.pc = "update", !.found = found, !.foundRV = u.rv]
    /\ UNCHANGED secrets
    /\ UpsertFrame

\* c.Create.  An obj that an earlier Get filled carries a resourceVersion,
\* which Create refuses.
UpsertCreate(fail) ==
    /\ upsert.pc = "create"
    /\ LET e == IF fail THEN "api"
                ELSE IF upsert.found.exists THEN "invalid"
                ELSE IF secrets[UpsertKey].exists THEN "exists"
                ELSE ""
       IN  /\ upsert' = IF e = "" THEN AfterAttempt([upsert EXCEPT !.rv = @ + 1,
                                                                   !.wrote = TRUE],
                                                    "created", "")
                        ELSE AfterAttempt(upsert, "", e)
           /\ secrets' = IF e = ""
                         THEN [secrets EXCEPT ![UpsertKey] =
                                  UpsertMutate(NewObj, upsert.labels)]
                         ELSE secrets
    /\ UpsertFrame

\* c.Update: refused as a conflict when the stored object is no longer at the
\* resourceVersion that was fetched.
UpsertUpdate(fail) ==
    /\ upsert.pc = "update"
    /\ LET e == IF fail THEN "api"
                ELSE IF ~secrets[UpsertKey].exists THEN "notfound"
                ELSE IF upsert.rv # upsert.foundRV THEN "conflict"
                ELSE ""
       IN  /\ upsert' = IF e = "" THEN AfterAttempt([upsert EXCEPT !.rv = @ + 1,
                                                                   !.wrote = TRUE],
                                                    "updated", "")
                        ELSE AfterAttempt(upsert, "", e)
           /\ secrets' = IF e = ""
                         THEN [secrets EXCEPT ![UpsertKey] =
                                  UpsertMutate(upsert.found, upsert.labels)]
                         ELSE secrets
    /\ UpsertFrame

NextUpsert ==
    \/ ExternalCreate
    \/ \E change \in ExternalChanges : ExternalUpdate(change)
    \/ ExternalDelete
    \/ \E labels \in UpsertLabelSets : UpsertStart(labels)
    \/ \E fail \in BOOLEAN : UpsertGet(fail)
    \/ \E fail \in BOOLEAN : UpsertCreate(fail)
    \/ \E fail \in BOOLEAN : UpsertUpdate(fail)

SpecUpsert == Init /\ [][NextUpsert]_vars

\* ------------------------------------------------ credentials that come late

\* The token controller of a cluster that has no root CA to hand out fills in
\* the token alone.
TokenWithoutCA(c) ==
    /\ clusters[c].tok.exists
    /\ Len(DataOf(clusters[c].tok, "token")) = 0
    /\ clusters' = [clusters EXCEPT ![c].tok.data = ("token" :> TokenOf(c))]
    /\ last' = NoLast
    /\ UNCHANGED <<hcs, kubeconfigs, secrets, gitOpsNamespace, queue, envSteps, workers,
                   upsert>>

\* The CA certificate is added to a token secret that lacks it.
PublishCA(c) ==
    /\ clusters[c].tok.exists
    /\ Len(DataOf(clusters[c].tok, "token")) # 0
    /\ Len(DataOf(clusters[c].tok, "ca.crt")) = 0
    /\ clusters' = [clusters EXCEPT ![c].tok.data = MapPut(@, "ca.crt", CAOf(c))]
    /\ last' = NoLast
    /\ UNCHANGED <<hcs, kubeconfigs, secrets, gitOpsNamespace, queue, envSteps, workers,
                   upsert>>

\* One watched resource and token secrets that are filled in one or two steps.
NextCreds ==
    \/ \E ls \in LabelSetsTwo : CreateHC(Foo, ls)
    \/ \E ls \in LabelSetsTwo : UpdateLabels(Foo, ls)
    \/ PutKubeconfig(Foo, PlainKubeConfig(Foo))
    \/ \E c \in Clusters : TokenController(c)
    \/ \E c \in Clusters : TokenWithoutCA(c)
    \/ \E c \in Clusters : PublishCA(c)
    \/ Resync(Foo)
    \/ Reconcile(Foo, 0)

SpecCreds == Init /\ [][NextCreds]_vars

\* ------------------------------------------- Reconcile on two workers at once

Bar == <<"clusters", "bar">>

\* The label sets of the resources reconciled side by side.
LabelSetsConc ==
    {ls \in LabelSetsTwo : ls # EmptyMap /\ ls[hyperOpsEnabledLabel] = "true"}

\* A worker takes a request that no other worker is processing.
Take(w, id) ==
    /\ workers[w].pc = "idle"
    /\ id \in queue
    /\ \A v \in Workers : workers[v].id # id
    /\ workers' = [workers EXCEPT ![w] = [NoWork EXCEPT !.pc = "begin", !.id = id]]
    /\ queue' = queue \ {id}
    /\ last' = NoLast
    /\ UNCHANGED <<hcs, kubeconfigs, secrets, clusters, gitOpsNamespace, envSteps, upsert>>

\* Reconcile returns: the worker is free, a request that failed is queued again.
Return(w, err, trace) ==
    /\ workers' = [workers EXCEPT ![w] = NoWork]
    /\ queue' = IF err = "" THEN queue ELSE queue \cup {workers[w].id}
    /\ last' = [op |-> "Reconcile", id |-> workers[w].id, err |-> err,
                hc |-> workers[w].hc, ns0 |-> workers[w].ns, trace |-> trace]

\* Lines 351-375: the Get, the deletion branch, the namespace override.
Begin(w) ==
    /\ workers[w].pc = "begin"
    /\ LET id == workers[w].id
           hc == hcs[id]
           r  == ReconcileOutcome(id, 0, hcs, kubeconfigs, secrets, clusters,
                                  gitOpsNamespace)
           ns == IF hyperOpsGitopsNamespaceLabel \in DOMAIN hc.labels
                 THEN hc.labels[hyperOpsGitopsNamespaceLabel] ELSE gitOpsNamespace
       IN  IF ~hc.exists \/ hc.deleting
           THEN /\ secrets' = r.secrets
                /\ Return(w, r.err, r.trace)
                /\ UNCHANGED gitOpsNamespace
           ELSE /\ gitOpsNamespace' = ns
                /\ workers' = [workers EXCEPT ![w].pc = "local", ![w].hc = hc,
                                              ![w].ns = ns]
                /\ last' = NoLast
                /\ UNCHANGED <<secrets, queue>>
    /\ UNCHANGED <<hcs, kubeconfigs, clusters, envSteps, upsert>>

\* Lines 376-381: setupClusterConfig on the local cluster.
LocalSetup(w) ==
    /\ workers[w].pc = "local"
    /\ LET r == setupClusterConfig(clusters[LocalCluster], LocalServer, LocalClusterName, 0)
           t == [workers[w].trace EXCEPT !.localOps = r.ops]
       IN  /\ clusters' = [clusters EXCEPT ![LocalCluster] = r.cluster]
           /\ IF r.err # "" THEN Return(w, r.err, t)
              ELSE /\ workers' = [workers EXCEPT ![w].pc = "localSecret",
                                                 ![w].cluster = r.value, ![w].trace = t]
                   /\ last' = NoLast
                   /\ UNCHANGED queue
    /\ UNCHANGED <<hcs, kubeconfigs, secrets, gitOpsNamespace, envSteps, upsert>>

\* The namespace createArgoCDClusterSecret puts on the secret had Reconcile
\* kept the namespace in a variable of its own.
WorkerNamespace_Captured(w) == workers[w].ns

\* Namespace: gitOpsNamespace, line 476: the package variable as it is when
\* worker w builds the secret.
WorkerNamespace(w) == gitOpsNamespace

\* Lines 383-396: the local secret and the enabled check.
LocalSecretStep(w) ==
    /\ workers[w].pc = "localSecret"
    /\ LET hc == workers[w].hc
           r  == createArgoCDClusterSecret(secrets, WorkerNamespace(w), LocalClusterLabels,
                                           workers[w].cluster)
           t  == [workers[w].trace EXCEPT !.localSecretOp = r.op]
       IN  /\ secrets' = r.secrets
           /\ IF /\ hyperOpsEnabledLabel \in DOMAIN hc.labels
                 /\ hc.labels[hyperOpsEnabledLabel] = "false"
              THEN Return(w, "", t)
              ELSE /\ workers' = [workers EXCEPT ![w].pc = "remote", ![w].trace = t]
                   /\ last' = NoLast
                   /\ UNCHANGED queue
    /\ UNCHANGED <<hcs, kubeconfigs, clusters, gitOpsNamespace, envSteps, upsert>>

\* Lines 397-419: the kubeconfig secret, the client, setupClusterConfig on
\* the hosted cluster.
RemoteSetup(w) ==
    /\ workers[w].pc = "remote"
    /\ LET id     == workers[w].id
           kc     == kubeconfigs[id].kubeconfig
           target == GetClientForCluster(kc)
           r      == setupClusterConfig(clusters[target], getServerFromKubeConfig(kc),
                                        NameOf(id), 0)
           t      == [workers[w].trace EXCEPT !.remoteOps = r.ops]
       IN  IF ~kubeconfigs[id].exists
           THEN Return(w, "", workers[w].trace) /\ UNCHANGED clusters
           ELSE IF ~kc.valid
           THEN Return(w, "kubeconfig", workers[w].trace) /\ UNCHANGED clusters
           ELSE /\ clusters' = [clusters EXCEPT ![target] = r.cluster]
                /\ IF r.err # "" THEN Return(w, r.err, t)
                   ELSE /\ workers' = [workers EXCEPT ![w].pc = "hostedSecret",
                                                      ![w].cluster = r.value,
                                                      ![w].trace = t]
                        /\ last' = NoLast
                        /\ UNCHANGED queue
    /\ UNCHANGED <<hcs, kubeconfigs, secrets, gitOpsNamespace, envSteps, upsert>>

\* Lines 421-434: the labels and the hosted secret.
HostedSecretStep(w) ==
    /\ workers[w].pc = "hostedSecret"
    /\ LET hc == workers[w].hc
           r  == createArgoCDClusterSecret(secrets, WorkerNamespace(w),
                                           HostedClusterLabels(hc.labels),
                                           workers[w].cluster)
       IN  IF IsNilMap(hc.labels)
           THEN Return(w, "panic", workers[w].trace) /\ UNCHANGED secrets
           ELSE /\ secrets' = r.secrets
                /\ Return(w, "", [workers[w].trace EXCEPT !.hostedOp = r.op])
    /\ UNCHANGED <<hcs, kubeconfigs, clusters, gitOpsNamespace, envSteps, upsert>>

NextConc ==
    \/ \E id \in Ids, ls \in LabelSetsConc : CreateHC(id, ls)
    \/ \E id \in Ids : MarkDeleted(id)
    \/ \E id \in Ids : PutKubeconfig(id, PlainKubeConfig(id))
    \/ \E c \in Clusters : TokenController(c)
    \/ \E w \in Workers, id \in Ids : Take(w, id)
    \/ \E w \in Workers : Begin(w)
    \/ \E w \in Workers : LocalSetup(w)
    \/ \E w \in Workers : LocalSecretStep(w)
    \/ \E w \in Workers : RemoteSetup(w)
    \/ \E w \in Workers : HostedSecretStep(w)

SpecConc == Init /\ [][NextConc]_vars


\* ------------------------------------------------------ requeue until it works

\* One watched resource that is created and then left alone, reconciled step
\* by step.  A Reconcile that returns an error is queued again (Return), the
\* worker goroutines keep running, and the token controllers do their work.
NextLive ==
    \/ \E ls \in LabelSets : CreateHC(Foo, ls)
    \/ \E kc \in KubeConfigsOf(Foo) : PutKubeconfig(Foo, kc)
    \/ \E c \in Clusters : TokenController(c)
    \/ \E w \in Workers : Take(w, Foo)
    \/ \E w \in Workers : Begin(w)
    \/ \E w \in Workers : LocalSetup(w)
    \/ \E w \in Workers : LocalSecretStep(w)
    \/ \E w \in Workers : RemoteSetup(w)
    \/ \E w \in Workers : HostedSecretStep(w)

SpecLive ==
    /\ Init
    /\ [][NextLive]_vars
    /\ \A c \in Clusters : WF_vars(TokenController(c))
    /\ \A w \in Workers :
          /\ WF_vars(Take(w, Foo))
          /\ WF_vars(Begin(w))
          /\ WF_vars(LocalSetup(w))
          /\ WF_vars(LocalSecretStep(w))
          /\ WF_vars(RemoteSetup(w))
          /\ WF_vars(HostedSecretStep(w))

\* ------------------------------------------------------ resources that share a name

NameIds == {Foo, OtherFoo, LocalNamed}

LabelSetsNames == {ls \in LabelSetsTwo : DOMAIN ls = {hyperOpsEnabledLabel}}

\* foo in two namespaces and a resource named in-cluster-local, all enabled
\* and without a gitops-namespace label.
NextNames ==
    \/ \E id \in NameIds, ls \in LabelSetsNames : CreateHC(id, ls)
    \/ \E id \in NameIds : MarkDeleted(id)
    \/ \E id \in NameIds : PutKubeconfig(id, PlainKubeConfig(id))
    \/ \E c \in Clusters : TokenController(c)
    \/ \E id \in NameIds : Reconcile(id, 0)

SpecNames == Init /\ [][NextNames]_vars

\* ------------------------------------- two Reconciles ensure one absent object

\* controllerutil.CreateOrUpdate on the service account of the local cluster,
\* its Get: found, and setupClusterConfig goes on as in LocalSetup; not
\* found, and the Create follows as an API call of its own.
LocalGet(w) ==
    /\ workers[w].pc = "local"
    /\ IF clusters[LocalCluster].sa.exists
       THEN LocalSetup(w)
       ELSE /\ workers' = [workers EXCEPT ![w].pc = "localCreate"]
            /\ last' = NoLast
            /\ UNCHANGED <<hcs, kubeconfigs, secrets, clusters, gitOpsNamespace, queue,
                           envSteps, upsert>>

\* The Create.  An object created since the Get makes it fail with
\* AlreadyExists; CreateOrUpdateWithRetries tries again only on a conflict
\* (utils.go:32), so the error goes up through setupClusterConfig (line 518)
\* and Reconcile (line 380).
LocalCreate(w) ==
    /\ workers[w].pc = "localCreate"
    /\ LET sa == clusters[LocalCluster].sa
           t  == [workers[w].trace EXCEPT !.localOps = <<"created">>]
       IN  IF sa.exists
           THEN /\ IF RetryOn("exists")
                   THEN /\ workers' = [workers EXCEPT ![w].pc = "local"]
                        /\ last' = NoLast
                        /\ UNCHANGED queue
                   ELSE Return(w, "exists", workers[w].trace)
                /\ UNCHANGED clusters
           ELSE /\ clusters' = [clusters EXCEPT ![LocalCluster].sa =
                                    CreateOrUpdate(sa, ServiceAccountObj, sa).obj]
                /\ workers' = [workers EXCEPT ![w].pc = "localRest", ![w].trace = t]
                /\ last' = NoLast
                /\ UNCHANGED queue
    /\ UNCHANGED <<hcs, kubeconfigs, secrets, gitOpsNamespace, envSteps, upsert>>

\* Lines 518-592 after the service account was created: the role binding,
\* the token secret and the token.
LocalRest(w) ==
    /\ workers[w].pc = "localRest"
    /\ LET r == setupClusterConfig(clusters[LocalCluster], LocalServer, LocalClusterName, 0)
           t == [workers[w].trace EXCEPT !.localOps = @ \o Tail(r.ops)]
       IN  /\ clusters' = [clusters EXCEPT ![LocalCluster] = r.cluster]
           /\ IF r.err # "" THEN Return(w, r.err, t)
              ELSE /\ workers' = [workers EXCEPT ![w].pc = "localSecret",
                                                 ![w].cluster = r.value, ![w].trace = t]
                   /\ last' = NoLast
                   /\ UNCHANGED queue
    /\ UNCHANGED <<hcs, kubeconfigs, secrets, gitOpsNamespace, envSteps, upsert>>

\* Two enabled resources without kubeconfig yet, reconciled side by side on
\* a cluster where the identity objects do not exist yet.
NextRace ==
    \/ \E id \in Ids, ls \in LabelSetsConc : CreateHC(id, ls)
    \/ \E c \in Clusters : TokenController(c)
    \/ \E w \in Workers, id \in Ids : Take(w, id)
    \/ \E w \in Workers : Begin(w)
    \/ \E w \in Workers : LocalGet(w)
    \/ \E w \in Workers : LocalCreate(w)
    \/ \E w \in Workers : LocalRest(w)
    \/ \E w \in Workers : LocalSecretStep(w)
    \/ \E w \in Workers : RemoteSetup(w)

SpecRace == Init /\ [][NextRace]_vars

\* ------------------------------------------------------------------ claims

\* The most recent step was a Reconcile of id that returned no error.
Succeeded(id) == last.op = "Reconcile" /\ last.id = id /\ last.err = ""

Live(hc) == hc.exists /\ ~hc.deleting

EnabledNotFalse(hc) ==
    /\ hyperOpsEnabledLabel \in DOMAIN hc.labels
    /\ hc.labels[hyperOpsEnabledLabel] # "false"

\* The namespace a resource designates for its secret.
Designated(hc) ==
    IF hyperOpsGitopsNamespaceLabel \in DOMAIN hc.labels
    THEN hc.labels[hyperOpsGitopsNamespaceLabel] ELSE DefaultGitOpsNamespace

\* json.Unmarshal of data.config
JsonParse(bytes) == bytes.json

\* The data the remote cluster of id should give the secret of id.
HostedDataOk(id, s) ==
    /\ s.exists
    /\ DOMAIN s.data = {"name", "server", "config"}
    /\ s.data["name"] = NameOf(id)
    /\ kubeconfigs[id].exists
    /\ kubeconfigs[id].kubeconfig.valid
    /\ s.data["server"] = kubeconfigs[id].kubeconfig.clusters[1].server
    /\ JsonParse(s.data["config"]).bearerToken # << >>
    /\ JsonParse(s.data["config"]).bearerToken
           = DataOf(clusters[RemoteOf(id)].tok, "token")
    /\ JsonParse(s.data["config"]).tlsClientConfig.caData # << >>
    /\ JsonParse(s.data["config"]).tlsClientConfig.caData
           = Base64URL(DataOf(clusters[RemoteOf(id)].tok, "ca.crt"))

\* C1: whenever Reconcile returns success for an existing, non-deleting
\* resource whose enabled label is not "false", a secret named after the
\* resource exists in the namespace the resource designates, with data.name
\* the resource's name, data.server the first cluster entry of its kubeconfig
\* and data.config a non-empty bearer token and CA from the remote token secret.
C1_SecretAfterSuccess ==
    \A id \in Ids :
        (Succeeded(id) /\ Live(hcs[id]) /\ EnabledNotFalse(hcs[id]))
        => HostedDataOk(id, secrets[<<Designated(hcs[id]), NameOf(id)>>])

C3_DefaultWithoutLabel ==
    \A id \in Ids :
        ( /\ Succeeded(id) /\ Live(hcs[id]) /\ EnabledNotFalse(hcs[id])
          /\ hyperOpsGitopsNamespaceLabel \notin DOMAIN hcs[id].labels
          /\ last.trace.hostedOp # "" )
        => HostedDataOk(id, secrets[<<DefaultGitOpsNamespace, NameOf(id)>>])

\* The gitops namespaces that hold a secret named after the resource.
SecretNamespaces(id) ==
    {ns \in GitOpsNamespaces : secrets[<<ns, NameOf(id)>>].exists}

\* C4: a secret named after a resource exists in at most one namespace, and
\* once a resource that carries a gitops-namespace label has been reconciled
\* no namespace but the one the label designates holds such a secret; also
\* after the label was changed from one namespace to another.
C4_OneSecretPerResource ==
    \A id \in Ids :
        /\ Cardinality(SecretNamespaces(id)) <= 1
        /\ ( /\ Succeeded(id) /\ Live(hcs[id]) /\ EnabledNotFalse(hcs[id])
             /\ hyperOpsGitopsNamespaceLabel \in DOMAIN hcs[id].labels )
              => SecretNamespaces(id) \subseteq {Designated(hcs[id])}

\* The label prefix as the interface section writes it, with the slash.
PrefixWithSlash == hyperOpsLabel \o <<"/">>

\* C5: after a successful Reconcile of an enabled resource the labels of its
\* hosted secret are exactly its labels under "hyper-ops.cloudmonkey.org/",
\* plus type=hosted, plus the ArgoCD secret-type label.
C5_ExactLabels ==
    \A id \in Ids :
        ( /\ Succeeded(id) /\ Live(hcs[id]) /\ EnabledNotFalse(hcs[id])
          /\ last.trace.hostedOp # "" )
        => secrets[<<gitOpsNamespace, NameOf(id)>>].labels
             = MapPut(MapPut(MapKeep(hcs[id].labels,
                                     {k \in DOMAIN hcs[id].labels :
                                          HasPrefix(k, PrefixWithSlash)}),
                             hyperOpsTypeLabel, "hosted"),
                      argoCDSecretTypeLabel, argoCDSecretTypeCluster)

\* C6: a Reconcile of a resource whose enabled label is absent or "false"
\* touches neither the hosted secret nor the identity objects of the remote
\* cluster.
C6_NothingHostedUnlessEnabled ==
    \A id \in Ids :
        ( /\ last.op = "Reconcile" /\ last.id = id
          /\ hcs[id].exists /\ ~EnabledNotFalse(hcs[id]) )
        => /\ last.trace.hostedOp = ""
           /\ last.trace.remoteOps = << >>

\* The local secret as Reconcile leaves it in namespace ns.
LocalSecretOk(ns) ==
    LET s == secrets[<<ns, LocalClusterName>>]
    IN  /\ s.exists
        /\ s.labels = (hyperOpsTypeLabel :> "local")
                       @@ (argoCDSecretTypeLabel :> argoCDSecretTypeCluster)
        /\ s.data["name"] = LocalClusterName
        /\ s.data["server"] = LocalServer
        /\ JsonParse(s.data["config"]).bearerToken
               = DataOf(clusters[LocalCluster].tok, "token")

\* C7: every successful Reconcile of an existing, non-deleting resource has
\* bootstrapped the local cluster and upserted the local secret, labelled
\* type=local, whatever the enabled label says.
C7_LocalAlwaysRegistered ==
    \A id \in Ids :
        (Succeeded(id) /\ Live(hcs[id]))
        => /\ Len(last.trace.localOps) = 3
           /\ last.trace.localSecretOp # ""
           /\ clusters[LocalCluster].sa.exists
           /\ clusters[LocalCluster].crb.exists
           /\ clusters[LocalCluster].tok.exists
           /\ LocalSecretOk(gitOpsNamespace)

\* A resource with enabled="false" was reconciled and the local secret is there.
C7_Witness ==
    \E id \in Ids :
        /\ Succeeded(id) /\ Live(hcs[id])
        /\ hyperOpsEnabledLabel \in DOMAIN hcs[id].labels
        /\ hcs[id].labels[hyperOpsEnabledLabel] = "false"
        /\ LocalSecretOk(gitOpsNamespace)

\* C8: once Reconcile has seen the deletion marker of a resource and returned
\* success, no secret named after the resource remains.
C8_SecretGoneAfterDeletion ==
    \A id \in Ids :
        (Succeeded(id) /\ hcs[id].exists /\ hcs[id].deleting)
        => SecretNamespaces(id) = {}

\* C9: Reconcile of a resource with a deletion marker only deletes the secret
\* named after it in the current namespace: identity objects, every other
\* secret and the process-wide namespace stay, and unless the Get or the
\* Delete itself fails it returns success, also when the secret is absent.
C9_DeletingOnlyDeletes ==
    [][ \A id \in Ids : \A f \in FailPoints :
          (hcs[id].exists /\ hcs[id].deleting /\ Reconcile(id, f))
          => /\ clusters' = clusters
             /\ gitOpsNamespace' = gitOpsNamespace
             /\ \A k \in SecretKeys :
                    \/ secrets'[k] = secrets[k]
                    \/ k = <<gitOpsNamespace, NameOf(id)>> /\ ~secrets'[k].exists
             /\ last'.trace.localOps = << >> /\ last'.trace.localSecretOp = ""
             /\ last'.trace.remoteOps = << >> /\ last'.trace.hostedOp = ""
             /\ f \notin {1, 2}
                  => /\ last'.err = ""
                     /\ ~secrets'[<<gitOpsNamespace, NameOf(id)>>].exists
                     /\ id \notin queue'
      ]_vars

\* A deleting resource was reconciled with success while its secret was
\* already gone and the identity objects of its remote cluster are in place.
C9_Witness ==
    \E id \in Ids :
        /\ Succeeded(id) /\ hcs[id].exists /\ hcs[id].deleting
        /\ last.trace.deleted = <<gitOpsNamespace, NameOf(id)>>
        /\ SecretNamespaces(id) = {}
        /\ clusters[RemoteOf(id)].tok.exists

AllUnchanged(ops) == \A i \in 1..Len(ops) : ops[i] = "unchanged"

\* C10: a Reconcile of an enabled resource that directly follows a successful
\* Reconcile of it, with no API call failing, succeeds, leaves every secret
\* and every identity object as it was, and each of its upserts reports
\* that it neither created nor updated.
C10_SecondReconcileNoop ==
    [][ \A id \in Ids :
          ( /\ Succeeded(id) /\ Live(hcs[id]) /\ EnabledNotFalse(hcs[id])
            /\ Reconcile(id, 0) )
          => /\ last'.err = ""
             /\ secrets' = secrets
             /\ clusters' = clusters
             /\ Len(last'.trace.localOps) = 3
             /\ AllUnchanged(last'.trace.localOps)
             /\ last'.trace.localSecretOp = "unchanged"
             /\ AllUnchanged(last'.trace.remoteOps)
             /\ last'.trace.hostedOp \in {"", "unchanged"}
      ]_vars

\* A Reconcile of an enabled resource found both secrets and all six identity
\* objects already as it wants them.
C10_Witness ==
    \E id \in Ids :
        /\ Succeeded(id) /\ Live(hcs[id]) /\ EnabledNotFalse(hcs[id])
        /\ Len(last.trace.localOps) = 3 /\ AllUnchanged(last.trace.localOps)
        /\ Len(last.trace.remoteOps) = 3 /\ AllUnchanged(last.trace.remoteOps)
        /\ last.trace.localSecretOp = "unchanged"
        /\ last.trace.hostedOp = "unchanged"

\* C11: when exactly one write of an upsert is rejected as a conflict, and
\* nothing else fails, the call fetches again, re-applies the mutation and
\* returns without error after its second attempt; what it leaves stored is
\* the mutation applied to the object as the other client left it.
C11_ConflictResilience ==
    [][ ( /\ upsert.pc # "done" /\ upsert'.pc = "done"
          /\ upsert'.conflicts = 1 /\ upsert'.first.err = "" )
        => /\ upsert'.err = ""
           /\ upsert'.attempts = 2
           /\ upsert'.op \in {"updated", "unchanged"}
           /\ secrets[UpsertKey].exists
           /\ secrets'[UpsertKey] = UpsertMutate(secrets[UpsertKey], upsert.labels)
      ]_vars

\* The second attempt wrote: the stored object has the labels of the call and
\* the annotation the other client added in between.
C11_Witness ==
    /\ upsert.pc = "done" /\ upsert.conflicts = 1 /\ upsert.err = ""
    /\ upsert.op = "updated" /\ upsert.attempts = 2
    /\ "touched" \in DOMAIN secrets[UpsertKey].annotations
    /\ secrets[UpsertKey].labels
         = MapPut(upsert.labels, argoCDSecretTypeLabel, argoCDSecretTypeCluster)

\* C12: once a Get, Create or Update of an upsert has failed with an error
\* that is not a conflict, the call has ended in that very attempt and has
\* returned that error.
C12_NonConflictAborts ==
    upsert.first.err # ""
    => /\ upsert.pc = "done"
       /\ upsert.err = upsert.first.err
       /\ upsert.op = ""
       /\ upsert.attempts = upsert.first.attempt

\* An API error ended the call in the attempt that followed a conflict.
C12_Witness ==
    /\ upsert.pc = "done" /\ upsert.err = "api"
    /\ upsert.conflicts = 1 /\ upsert.attempts = 2

\* C13: an upsert makes at most BackoffSteps attempts; when every one of them
\* was rejected as a conflict it has ended with an error, the only case in
\* which a conflict reaches the caller; and it reports success only after a
\* Create or Update that was accepted or a comparison that found nothing to do.
C13_BoundedAttempts ==
    /\ upsert.attempts <= BackoffSteps
    /\ upsert.conflicts = BackoffSteps => (upsert.pc = "done" /\ upsert.err = "timeout")
    /\ upsert.err \in {"timeout", "conflict"} => upsert.conflicts = BackoffSteps
    /\ (upsert.pc = "done" /\ upsert.err = "")
       => /\ upsert.op \in {"created", "updated", "unchanged"}
          /\ (upsert.op \in {"created", "updated"}) <=> upsert.wrote
          /\ upsert.op = "unchanged"
                => UpsertMutate(upsert.found, upsert.labels) = upsert.found

\* Every attempt of the call was rejected as a conflict.
C13_Witness ==
    /\ upsert.pc = "done" /\ upsert.err = "timeout"
    /\ upsert.attempts = BackoffSteps /\ upsert.conflicts = BackoffSteps
    /\ ~upsert.wrote

NotReady == {"token not found", "ca.crt not found"}

CredentialsReady(c) ==
    /\ Len(DataOf(clusters[c].tok, "token")) # 0
    /\ Len(DataOf(clusters[c].tok, "ca.crt")) # 0

\* C14: a Reconcile whose bootstrap fetches a token secret with an empty token
\* or an empty ca.crt returns that error at once: the request stays queued,
\* the token secret is as empty as before, and no secret named after the
\* cluster whose credentials were missing is written; and a Reconcile that
\* wrote a secret for a cluster read both fields non-empty.
C14_CredentialsNotReady ==
    [][ \A id \in Ids : \A f \in FailPoints :
          Reconcile(id, f)
          => /\ last'.err \in NotReady
                => LET local == last'.trace.localSecretOp = ""
                       n == IF local THEN LocalClusterName ELSE NameOf(id)
                       c == IF local THEN LocalCluster ELSE RemoteOf(id)
                   IN  /\ id \in queue'
                       /\ ~CredentialsReady(c)
                       /\ clusters'[c].tok.data = clusters[c].tok.data
                       /\ \A ns \in GitOpsNamespaces :
                              secrets'[<<ns, n>>] = secrets[<<ns, n>>]
                       /\ last'.trace.hostedOp = ""
                       /\ local => secrets' = secrets
             /\ last'.trace.localSecretOp # "" => CredentialsReady(LocalCluster)
             /\ last'.trace.hostedOp # "" => CredentialsReady(RemoteOf(id))
      ]_vars

\* The remote token secret had a token but no CA: Reconcile returned the
\* error, wrote the local secret and no hosted one, and is queued again.
C14_Witness ==
    /\ last.op = "Reconcile" /\ last.id = Foo /\ last.err = "ca.crt not found"
    /\ Len(last.trace.remoteOps) = 3
    /\ Len(DataOf(clusters[RemoteOf(Foo)].tok, "token")) # 0
    /\ SecretNamespaces(Foo) = {}
    /\ secrets[<<gitOpsNamespace, LocalClusterName>>].exists
    /\ Foo \in queue

\* C15: a Reconcile of an enabled resource whose kubeconfig secret is absent,
\* or cannot be fetched, returns an error and writes no hosted secret.
C15_KubeconfigAbsencePropagated ==
    \A id \in Ids :
        ( /\ last.op = "Reconcile" /\ last.id = id
          /\ Live(last.hc) /\ EnabledNotFalse(last.hc)
          /\ ~kubeconfigs[id].exists )
        => /\ last.err # ""
           /\ last.trace.hostedOp = ""

\* C16: a create or update event puts the request into the queue exactly when
\* the (new) object carries the enabled label key, whatever its value; an
\* event for an object without the key leaves the queue as it is, and nothing
\* but an accepted event (or a delete event) queues a request.
C16_EventFilter ==
    [][ \A id \in Ids :
          /\ (hcs'[id] # hcs[id] /\ hcs'[id].exists)
             => IF hyperOpsEnabledLabel \in DOMAIN hcs'[id].labels
                THEN id \in queue'
                ELSE queue' = queue
          /\ (id \in queue' /\ id \notin queue)
             => \/ ~hcs'[id].exists
                \/ hyperOpsEnabledLabel \in DOMAIN hcs'[id].labels
      ]_vars

\* An update that set enabled="false" queued a request that was not queued.
C16_Witness ==
    /\ last = NoLast
    /\ hcs[Foo].exists /\ ~hcs[Foo].deleting
    /\ hyperOpsEnabledLabel \in DOMAIN hcs[Foo].labels
    /\ hcs[Foo].labels[hyperOpsEnabledLabel] = "false"
    /\ Foo \in queue
    /\ secrets[<<"ns-b", "foo">>].exists

\* C17: Reconcile of a request whose HostedCluster does not exist returns
\* success and does nothing: secrets, identity objects and the process-wide
\* namespace stay as they are.
C17_NotFoundNoAction ==
    [][ \A id \in Ids : \A f \in FailPoints \ {1} :
          (~hcs[id].exists /\ Reconcile(id, f))
          => /\ last'.err = ""
             /\ last'.trace = NoTrace
             /\ secrets' = secrets
             /\ clusters' = clusters
             /\ gitOpsNamespace' = gitOpsNamespace
             /\ id \notin queue'
      ]_vars

\* The request of a HostedCluster that is gone was reconciled; the secret it
\* had is still there.
C17_Witness ==
    /\ Succeeded(Foo) /\ ~hcs[Foo].exists /\ ~last.hc.exists
    /\ SecretNamespaces(Foo) # {}

\* What a successful Reconcile of id left as the hosted secret.
HostedSecret(id) == secrets[<<gitOpsNamespace, NameOf(id)>>]

C18_WriteUsesSharedNamespace ==
    [][ \A w \in Workers :
          ( /\ workers[w].pc \in {"localSecret", "hostedSecret"}
            /\ workers'[w].pc # workers[w].pc
            /\ secrets' # secrets )
          => LET n == IF workers[w].pc = "localSecret" THEN LocalClusterName
                      ELSE NameOf(workers[w].id)
             IN  /\ secrets'[<<gitOpsNamespace, n>>].exists
                 /\ \A k \in SecretKeys :
                        secrets'[k] # secrets[k] => k = <<gitOpsNamespace, n>>
      ]_vars

\* foo is labelled ns-a and bar ns-b, neither label was ever edited, the
\* Reconcile of foo set the package variable to ns-a itself and returned
\* success, and yet the secret of foo is in ns-b and not in ns-a.
C18_Witness ==
    /\ hcs[Foo].exists /\ Designated(hcs[Foo]) = "ns-a"
    /\ hcs[Bar].exists /\ Designated(hcs[Bar]) = "ns-b"
    /\ Succeeded(Foo) /\ last.ns0 = "ns-a" /\ last.trace.hostedOp = "created"
    /\ secrets[<<"ns-b", "foo">>].exists
    /\ ~secrets[<<"ns-a", "foo">>].exists

\* A Reconcile of an enabled resource with a usable kubeconfig failed, some
\* identity objects are in place and there is no hosted secret yet.
PartlyBootstrapped(id) ==
    /\ last.op = "Reconcile" /\ last.id = id /\ last.err # ""
    /\ Live(hcs[id]) /\ EnabledNotFalse(hcs[id])
    /\ kubeconfigs[id].exists /\ kubeconfigs[id].kubeconfig.valid
    /\ \E c \in {LocalCluster, RemoteOf(id)} : clusters[c].sa.exists
    /\ SecretNamespaces(id) = {}

\* A Reconcile went through both bootstraps without creating or changing
\* anything and created the hosted secret.
Resumed(id) ==
    /\ Succeeded(id)
    /\ Len(last.trace.localOps) = 3 /\ AllUnchanged(last.trace.localOps)
    /\ Len(last.trace.remoteOps) = 3 /\ AllUnchanged(last.trace.remoteOps)
    /\ last.trace.hostedOp = "created"
    /\ SecretNamespaces(id) # {}

\* C19: identity objects, once created, stay; and when a Reconcile of an
\* enabled resource has failed with the bootstrap partly done, then, failed
\* reconciles being requeued and token secrets being populated, a later
\* Reconcile finds the objects in place, passes them without error and creates
\* the hosted secret.
C19_BootstrapResumes ==
    /\ [][ \A c \in Clusters :
             /\ clusters[c].sa.exists => clusters'[c].sa = clusters[c].sa
             /\ clusters[c].crb.exists => clusters'[c].crb = clusters[c].crb
             /\ clusters[c].tok.exists => clusters'[c].tok.exists ]_vars
    /\ PartlyBootstrapped(Foo) ~> Resumed(Foo)

\* The resumed Reconcile, in a state where the hosted secret is the only one
\* of foo.
C19_Witness ==
    /\ Resumed(Foo)
    /\ Cardinality(SecretNamespaces(Foo)) = 1
    /\ CredentialsReady(RemoteOf(Foo))

Disabled(hc) ==
    /\ hc.exists /\ ~hc.deleting
    /\ hyperOpsEnabledLabel \in DOMAIN hc.labels
    /\ hc.labels[hyperOpsEnabledLabel] = "false"

\* C21 as stated: a successful Reconcile of a resource with enabled="false"
\* leaves the process-wide namespace as it was before, also when the resource
\* carries a gitops-namespace label, and has written the local secret into
\* that earlier namespace.
C21_DisabledKeepsNamespace ==
    \A id \in Ids :
        (Succeeded(id) /\ Disabled(hcs[id]))
        => /\ gitOpsNamespace = last.ns0
           /\ last.trace.localSecretOp # ""
           /\ LocalSecretOk(last.ns0)

\* C21, amended: a successful Reconcile of a resource with enabled="false"
\* that carries a gitops-namespace label has applied the override before it
\* stops: the process-wide namespace is the label's value, the local secret is
\* in that namespace, and nothing hosted was touched.
C21_DisabledOverridesNamespace ==
    \A id \in Ids :
        ( /\ Succeeded(id) /\ Disabled(hcs[id])
          /\ hyperOpsGitopsNamespaceLabel \in DOMAIN hcs[id].labels )
        => /\ gitOpsNamespace = hcs[id].labels[hyperOpsGitopsNamespaceLabel]
           /\ last.trace.localSecretOp # ""
           /\ LocalSecretOk(hcs[id].labels[hyperOpsGitopsNamespaceLabel])
           /\ last.trace.remoteOps = << >>
           /\ last.trace.hostedOp = ""

\* The Reconcile of a disabled resource labelled ns-a moved the process-wide
\* namespace from another value to ns-a and created the local secret there.
C21_Witness ==
    /\ Succeeded(Foo) /\ Disabled(hcs[Foo])
    /\ last.ns0 # "ns-a" /\ gitOpsNamespace = "ns-a"
    /\ last.trace.localSecretOp = "created"
    /\ secrets[<<"ns-a", LocalClusterName>>].exists

\* C22: no Reconcile deletes or modifies an identity object that exists:
\* bootstrap leaves an existing service account, role binding or token secret
\* as it finds it, also when its content differs from what it would create,
\* and so does the Reconcile of a deleting resource.
C22_IdentityObjectsLeftAlone ==
    [][ \A id \in Ids : \A f \in FailPoints :
          Reconcile(id, f)
          => \A c \in Clusters :
                 /\ clusters[c].sa.exists => clusters'[c].sa = clusters[c].sa
                 /\ clusters[c].crb.exists => clusters'[c].crb = clusters[c].crb
                 /\ clusters[c].tok.exists => clusters'[c].tok = clusters[c].tok
      ]_vars

\* A Reconcile ran both bootstraps against token secrets that the token
\* controllers had filled, which is not how bootstrap builds them.
C22_Witness ==
    /\ last.op = "Reconcile" /\ last.id = Foo
    /\ Len(last.trace.localOps) = 3 /\ Len(last.trace.remoteOps) = 3
    /\ clusters[LocalCluster].tok # TokenSecretObj
    /\ clusters[RemoteOf(Foo)].tok # TokenSecretObj
    /\ CredentialsReady(RemoteOf(Foo))

\* The identity objects of a cluster were created in their order.
InOrder(cl) ==
    /\ cl.tok.exists => cl.crb.exists
    /\ cl.crb.exists => cl.sa.exists

\* C23: a Reconcile whose local bootstrap or local secret fails returns that
\* error and has not reached the hosted cluster: not the Get of the kubeconfig
\* secret (a failure of that Get is not what it returns), no identity object
\* on the remote cluster, no hosted secret.  Within a bootstrap the service
\* account comes before the role binding and that before the token secret,
\* and a step that fails creates none of the later objects.
C23_LocalBeforeRemote ==
    [][ \A id \in Ids : \A f \in FailPoints :
          (Reconcile(id, f) /\ Live(hcs[id]))
          => /\ (last'.err # "" /\ last'.trace.localSecretOp = "")
                => /\ clusters'[RemoteOf(id)] = clusters[RemoteOf(id)]
                   /\ last'.trace.remoteOps = << >>
                   /\ last'.trace.hostedOp = ""
                   /\ \A ns \in GitOpsNamespaces :
                          secrets'[<<ns, NameOf(id)>>] = secrets[<<ns, NameOf(id)>>]
             /\ (f \in 2..5 \/ (f = 6 /\ CredentialsReady(LocalCluster)))
                => (last'.err = "api" /\ last'.trace.localSecretOp = "")
             /\ (f \in {6, 7} /\ ~CredentialsReady(LocalCluster))
                => (last'.err = "token not found" /\ last'.trace.localSecretOp = "")
             /\ last'.trace.remoteOps # << >> => last'.trace.localSecretOp # ""
             /\ f = 2 => clusters'[LocalCluster] = clusters[LocalCluster]
             /\ f = 3 => /\ clusters'[LocalCluster].crb = clusters[LocalCluster].crb
                         /\ clusters'[LocalCluster].tok = clusters[LocalCluster].tok
             /\ f = 4 => clusters'[LocalCluster].tok = clusters[LocalCluster].tok
             /\ \A c \in Clusters : InOrder(clusters'[c])
      ]_vars

\* The upsert of the local secret failed in a Reconcile of an enabled resource
\* whose kubeconfig secret is there: the remote cluster has no identity object.
C23_Witness ==
    /\ last.op = "Reconcile" /\ last.id = Foo /\ last.err = "api"
    /\ Len(last.trace.localOps) = 3 /\ last.trace.localSecretOp = ""
    /\ CredentialsReady(LocalCluster)
    /\ Live(hcs[Foo]) /\ EnabledNotFalse(hcs[Foo])
    /\ kubeconfigs[Foo].exists /\ kubeconfigs[Foo].kubeconfig.valid
    /\ clusters[RemoteOf(Foo)] = NoIdentity

\* C27: a Reconcile of a resource with enabled="false" changes neither a
\* secret named after the resource nor the identity objects of its remote
\* cluster.
C27_DisablingDoesNotRevoke ==
    [][ \A id \in Ids : \A f \in FailPoints :
          (Reconcile(id, f) /\ Disabled(hcs[id]))
          => /\ \A ns \in GitOpsNamespaces :
                    secrets'[<<ns, NameOf(id)>>] = secrets[<<ns, NameOf(id)>>]
             /\ clusters'[RemoteOf(id)] = clusters[RemoteOf(id)]
      ]_vars

\* A resource that has its hosted secret was set to enabled="false" and
\* reconciled: secret and remote identity objects are still there.
C27_Witness ==
    /\ Succeeded(Foo) /\ Disabled(hcs[Foo])
    /\ HostedDataOk(Foo, secrets[<<gitOpsNamespace, "foo">>])
    /\ InOrder(clusters[RemoteOf(Foo)]) /\ clusters[RemoteOf(Foo)].tok.exists

\* The secret s was made from the cluster of resource id.
BelongsTo(s, id) ==
    /\ s.exists
    /\ "server" \in DOMAIN s.data
    /\ s.data["server"] = ServerOf(RemoteOf(id))

\* The secret s is the registration of the local cluster.
IsLocalSecret(s) ==
    /\ s.exists
    /\ "server" \in DOMAIN s.data
    /\ s.data["server"] = LocalServer

\* C24: a Reconcile of a resource changes no secret that was made from the
\* cluster of another resource, and a secret that registers the local cluster
\* is still that afterwards; also for two resources of the same name in
\* different namespaces and for a resource named in-cluster-local.
C24_SecretsDisjoint ==
    [][ \A id \in AllIds : \A f \in FailPoints :
          Reconcile(id, f)
          => \A k \in SecretKeys :
                 /\ \A other \in AllIds \ {id} :
                        BelongsTo(secrets[k], other) => secrets'[k] = secrets[k]
                 /\ IsLocalSecret(secrets[k]) => IsLocalSecret(secrets'[k])
      ]_vars

\* The resource is marked for deletion or already gone, and no event of it
\* waits for a Reconcile.
DeletionSettled(id) ==
    /\ ~hcs[id].exists \/ hcs[id].deleting
    /\ id \notin queue

\* C26: once a resource is marked for deletion and every event the filter
\* let through has been reconciled, no namespace holds a secret named after
\* it; also when its enabled label was removed, or its gitops-namespace
\* label changed, after the secret was created.
C26_NoOrphanedSecret ==
    \A id \in Ids : DeletionSettled(id) => SecretNamespaces(id) = {}

\* C25: when two Reconciles of different resources ensure the same absent
\* object at the same time, neither of them returns the error of a Create
\* that found the object already there.
C25_ConcurrentCreateSafe ==
    last.op = "Reconcile" => last.err # "exists"

====
